---- MODULE Spec2Model ----
(***************************************************************************)
(* A model of signal-hook's exfiltrators (src/iterator/exfiltrator.rs),    *)
(* of the build script of signal-hook-consts (build.rs) and of             *)
(* signal-hook-sys (Origin::extract).                                      *)
(*                                                                         *)
(* TLC's integers are 32 bits wide, so the unsigned words of the code are  *)
(* held as tuples of 16-bit limbs, most significant limb first: a u32 is   *)
(* <<h, l>> (value h * 2^16 + l), a u64 is <<a, b, c, d>>.  A pid_t (i32)  *)
(* and a c_int are plain integers.                                         *)
(***************************************************************************)
EXTENDS Integers, Sequences, FiniteSets, TLC

VARIABLES
    ex,         \* the exfiltrator E of SignalsInfo<E>: "SignalOnly" or "WithOrigin"
    slot,       \* slot[k]: the E::Storage of registered signal k
    cpc,        \* cpc[c]: where consumer thread c is ("idle", "load", "done")
    carg,       \* carg[c]: the arguments of c's load call
    ret,        \* ret[c]: what c's last load returned
    hist,       \* hist[k]: history of slot k (see NoHist)
    obs,        \* obs[c]: history of c's load call (see NoObs)
    nops,       \* calls made so far
    xpc,        \* codec run: "in", "composed", "decoded"
    xpid,       \* codec run: the pid_t given to compose
    xuid,       \* codec run: the uid_t given to compose
    xword,      \* codec run: the u64 compose returned
    xout,       \* codec run: the <<pid, uid>> unpacked from xword
    benv,       \* build script: the environment it runs in (see BuildEnvs)
    bpc,        \* build script: where main is
    out_file,   \* build script: the path variable out_file
    cmd,        \* build script: the path variable cmd
    bexe,       \* build script: the probe executable in OUT_DIR
    bgen,       \* build script: the generated constants file in OUT_DIR
    bcc,        \* build script: how the compiler run ended
    bprobe,     \* build script: how the probe run ended
    epc,        \* Origin::extract: where the call is
    ehelper,    \* Origin::extract: what sighook_signal_origin does (see Helpers)
    elocal,     \* Origin::extract: the locals pid, uid and origin
    eresult     \* Origin::extract: the Origin returned

vars == <<ex, slot, cpc, carg, ret, hist, obs, nops,
          xpc, xpid, xuid, xword, xout,
          benv, bpc, out_file, cmd, bexe, bgen, bcc, bprobe,
          epc, ehelper, elocal, eresult>>

exfVars == <<ex, slot, cpc, carg, ret, hist, obs, nops>>
codecVars == <<xpc, xpid, xuid, xword, xout>>
buildVars == <<benv, bpc, out_file, cmd, bexe, bgen, bcc, bprobe>>
\* What the steps of one component leave alone.
extractVars == <<epc, ehelper, elocal, eresult>>
notExf == <<codecVars, buildVars, extractVars>>
notCodec == <<exfVars, buildVars, extractVars>>
notBuild == <<exfVars, codecVars, extractVars>>
notExtract == <<exfVars, codecVars, buildVars>>

(***************************************************************************)
(* Fixed-width arithmetic.                                                 *)
(***************************************************************************)
Limb == 2^16

\* The values of pid_t (i32) lie in -2^31 .. 2^31 - 1.
PidMin == -(Limb * (Limb \div 2 - 1)) - Limb
PidMax == Limb * (Limb \div 2 - 1) + (Limb - 1)

\* x >> n and x << n on a u64, for n a whole number of limbs.
ShrLimbs(w, n) == [i \in 1..4 |-> IF i - n >= 1 THEN w[i - n] ELSE 0]
ShlLimbs(w, n) == [i \in 1..4 |-> IF i + n <= 4 THEN w[i + n] ELSE 0]

\* a | b on 16-bit values, bit by bit from the least significant.
RECURSIVE BitOr(_, _, _)
BitOr(a, b, bits) ==
    IF bits = 0 THEN 0
    ELSE (IF a % 2 = 1 \/ b % 2 = 1 THEN 1 ELSE 0)
         + 2 * BitOr(a \div 2, b \div 2, bits - 1)

\* a | b on u64.
U64Or(a, b) == [i \in 1..4 |-> BitOr(a[i], b[i], 16)]

\* (pid as u32): the two's-complement bit pattern of an i32.
pid_as_u32(pid) == <<(pid \div Limb) % Limb, pid % Limb>>

\* (x as u64) of a u32: zero extension.
u32_as_u64(x) == <<0, 0, x[1], x[2]>>

\* (w as u32) of a u64: truncation to the low 32 bits.
u64_as_u32(w) == <<w[3], w[4]>>

\* (x as pid_t) of a u32: the bit pattern read as a signed 32-bit integer.
u32_as_pid(x) ==
    IF x[1] >= Limb \div 2 THEN (x[1] - Limb) * Limb + x[2]
    ELSE x[1] * Limb + x[2]

(***************************************************************************)
(* WithOrigin::compose and the sentinels.                                  *)
(***************************************************************************)
\* A slip: the pid shifted by 16 bits, so that the halves overlap.
compose_short_shift(pid, uid) ==
    U64Or(ShlLimbs(u32_as_u64(pid_as_u32(pid)), 1), u32_as_u64(uid))

\* A slip: the halves swapped.
compose_swapped(pid, uid) ==
    U64Or(ShlLimbs(u32_as_u64(uid), 2), u32_as_u64(pid_as_u32(pid)))

compose(pid, uid) ==
    LET p == u32_as_u64(pid_as_u32(pid))
        u == u32_as_u64(uid)
    IN  U64Or(ShlLimbs(p, 2), u)

\* A slip: the uid taken from the high half.
decompose_uid_high(composed) == u64_as_u32(ShrLimbs(composed, 2))

\* The unpacking of WithOrigin::load's last arm.
decompose_pid(composed) == u32_as_pid(u64_as_u32(ShrLimbs(composed, 2)))
decompose_uid(composed) == u64_as_u32(composed)

EMPTY == compose(-1, <<0, 1>>)
UNKNOWN == compose(-1, <<0, 2>>)

(***************************************************************************)
(* The codec run: compose applied to a sampled (pid, uid), then unpacked.  *)
(***************************************************************************)
PidSamples == {PidMin, -Limb, -2, -1, 0, 1, 4242, Limb - 1, Limb, PidMax}
UidSamples == {<<0, 0>>, <<0, 1>>, <<0, 2>>, <<0, 7>>, <<0, Limb - 1>>,
               <<1, 0>>, <<Limb \div 2, 0>>, <<Limb - 1, Limb - 2>>,
               <<Limb - 1, Limb - 1>>}

NoWord == <<0, 0, 0, 0>>
NoPair == <<0, <<0, 0>>>>

CodecInit ==
    /\ xpc = "in"
    /\ xpid \in PidSamples
    /\ xuid \in UidSamples
    /\ xword = NoWord
    /\ xout = NoPair

\* No codec run.
CodecIdle == CodecInit /\ xpid = 0 /\ xuid = <<0, 0>>

CodecCompose ==
    /\ xpc = "in"
    /\ xword' = compose(xpid, xuid)
    /\ xpc' = "composed"
    /\ UNCHANGED <<xpid, xuid, xout>>
    /\ UNCHANGED notCodec

CodecDecompose ==
    /\ xpc = "composed"
    /\ xout' = <<decompose_pid(xword), decompose_uid(xword)>>
    /\ xpc' = "decoded"
    /\ UNCHANGED <<xpid, xuid, xword>>
    /\ UNCHANGED notCodec

(***************************************************************************)
(* The exfiltrators.                                                       *)
(***************************************************************************)
\* si_code values as Linux defines them: SI_USER (sent by kill(2)) and SI_QUEUE
\* (sent by sigqueue(3)) are the constants of signal_hook_consts; SI_KERNEL
\* (sent by the kernel) stands for the codes that are neither.
SI_USER == 0
SI_QUEUE == -1
SI_KERNEL == 128

None == [some |-> FALSE]
Some(v) == [some |-> TRUE, val |-> v]

\* OriginType and Origin.
Unknown == [tag |-> "Unknown"]
Process(pid, uid) == [tag |-> "Process", pid |-> pid, uid |-> uid]
Origin(signal, origin_type) == [signal |-> signal, origin_type |-> origin_type]

\* A slip: OriginStorage's Default derived, the word zero.
Default_zeroed(e) == IF e = "SignalOnly" THEN FALSE ELSE <<0, 0, 0, 0>>

\* AtomicBool::default() and OriginStorage::default().
Default(e) == IF e = "SignalOnly" THEN FALSE ELSE EMPTY

\* A slip: the flag flipped (fetch_xor) where it is to be set.
SignalOnly_store_toggles(s, signal, info) == ~s

\* SignalOnly::store: the value the atomic store leaves in the slot.
SignalOnly_store(s, signal, info) == TRUE

\* A slip: the outcome of the compare-exchange read the wrong way round.
SignalOnly_load_inverted(s, signal) ==
    IF s = TRUE THEN [slot |-> FALSE, ret |-> None]
    ELSE [slot |-> s, ret |-> Some(signal)]

\* A slip: the flag is tested and not cleared.
SignalOnly_load_no_clear(s, signal) ==
    IF s = TRUE THEN [slot |-> s, ret |-> Some(signal)]
    ELSE [slot |-> s, ret |-> None]

\* SignalOnly::load: compare_exchange(true, false), the slot it leaves and the
\* value returned.
SignalOnly_load(s, signal) ==
    IF s = TRUE THEN [slot |-> FALSE, ret |-> Some(signal)]
    ELSE [slot |-> s, ret |-> None]

\* A slip: the sender is packed whatever the code is.
WithOrigin_store_always_packs(s, signal, info) ==
    compose(info.si_pid, info.si_uid)

\* WithOrigin::store: the word the atomic store leaves in the slot.
WithOrigin_store(s, signal, info) ==
    IF info.si_code = SI_QUEUE \/ info.si_code = SI_USER
    THEN compose(info.si_pid, info.si_uid)
    ELSE UNKNOWN

\* A slip: the slot is read and not reset.
WithOrigin_load_no_reset(s, signal) ==
    [slot |-> s,
     ret |-> IF s = EMPTY THEN None
             ELSE IF s = UNKNOWN THEN Some(Origin(signal, Unknown))
             ELSE Some(Origin(signal,
                              Process(decompose_pid(s), decompose_uid(s))))]

\* WithOrigin::load: swap(EMPTY), the slot it leaves and the value returned.
WithOrigin_load(s, signal) ==
    LET loaded == s
    IN  [slot |-> EMPTY,
         ret |-> IF loaded = EMPTY THEN None
                 ELSE IF loaded = UNKNOWN THEN Some(Origin(signal, Unknown))
                 ELSE Some(Origin(signal,
                                  Process(decompose_pid(loaded),
                                          decompose_uid(loaded))))]

\* E::store and E::load for the exfiltrator e.
store(e, s, signal, info) ==
    IF e = "SignalOnly" THEN SignalOnly_store(s, signal, info)
    ELSE WithOrigin_store(s, signal, info)

\* A slip: SignalOnly::load repeats its compare_exchange until it succeeds.
load_retries_until_set(e, s) == e = "SignalOnly" /\ s = FALSE

\* Whether load, having read s in its atomic access, makes the access again:
\* the compare_exchange and the swap are in no loop.
load_retries(e, s) == FALSE

\* A slip: load reports one fixed signal, not its argument.
load_fixed_signal(e, s, signal) ==
    IF e = "SignalOnly" THEN SignalOnly_load(s, 12)
    ELSE WithOrigin_load(s, 12)

load(e, s, signal) ==
    IF e = "SignalOnly" THEN SignalOnly_load(s, signal)
    ELSE WithOrigin_load(s, signal)

(***************************************************************************)
(* The registration layer's slots, the signal handlers that store into     *)
(* them and the consumer threads that load from them.                      *)
(*                                                                         *)
(* A handler may run on any thread and interrupt anything, another handler *)
(* or a load included.  The only shared access of a store is its one       *)
(* SeqCst store, so a store call is one step: a call that has not yet      *)
(* written cannot be told from one that has not yet started.  A load call  *)
(* is three steps (call, the atomic operation, return), so that loads      *)
(* overlap stores and each other.                                          *)
(***************************************************************************)
MaxOps == 4

Exfiltrators == {"SignalOnly", "WithOrigin"}
Signals == {10, 12}
Consumers == {"c1", "c2"}

\* The metadata of the deliveries: the two codes that name a sending process and
\* one that does not; ordinary senders, and the senders (-1, 1) and (-1, 2).
siginfo(code, pid, uid) == [si_code |-> code, si_pid |-> pid, si_uid |-> uid]
Infos == {siginfo(SI_USER, 4242, <<0, 7>>), siginfo(SI_QUEUE, 1000, <<0, 0>>),
          siginfo(SI_QUEUE, -1, <<0, 1>>), siginfo(SI_USER, -1, <<0, 2>>),
          siginfo(SI_KERNEL, 4242, <<0, 7>>), siginfo(SI_KERNEL, -1, <<0, 1>>)}

NoInfo == siginfo(SI_KERNEL, 0, <<0, 0>>)
NoLoadArg == [slot |-> 10, signal |-> 10]

\* The history of a slot:
\*   n           stores since the last load's atomic step (or since registration)
\*   last        the siginfo of the last of these stores
\*   sig         the signal argument of the last of these stores
\*   loaded      a load's atomic step has acted on the slot
\*   unreported  a store has written and no load's atomic step after the last
\*               write has returned Some
NoHist == [n |-> 0, last |-> NoInfo, sig |-> 10, loaded |-> FALSE,
           unreported |-> FALSE, stores |-> 0, somes |-> 0]

\* The history of a load call:
\*   n, last, sig, loaded   the slot's history as the atomic step of the call
\*               found it
\*   owed        at the call, the slot's history was unreported
\*   someSince   since the call, the atomic step of another load on the slot
\*               returned Some
\*   accesses    the atomic accesses to the slot the call has made
NoObs == [n |-> 0, last |-> NoInfo, sig |-> 10, loaded |-> FALSE,
          owed |-> FALSE, someSince |-> FALSE, accesses |-> 0]

ExfInit ==
    /\ ex \in Exfiltrators
    /\ slot = [k \in Signals |-> Default(ex)]
    /\ cpc = [c \in Consumers |-> "idle"]
    /\ carg = [c \in Consumers |-> NoLoadArg]
    /\ ret = [c \in Consumers |-> None]
    /\ hist = [k \in Signals |-> NoHist]
    /\ obs = [c \in Consumers |-> NoObs]
    /\ nops = 0

\* A slip: one storage for every signal, so that a store writes all the slots.
Store_every_slot(k, signal, info) ==
    /\ nops < MaxOps
    /\ slot' = [j \in Signals |-> store(ex, slot[j], signal, info)]
    /\ hist' = [hist EXCEPT
          ![k] = [n |-> hist[k].n + 1, last |-> info, sig |-> signal,
                  loaded |-> hist[k].loaded, unreported |-> TRUE,
                  stores |-> hist[k].stores + 1, somes |-> hist[k].somes]]
    /\ nops' = nops + 1
    /\ UNCHANGED <<ex, cpc, carg, ret, obs>>
    /\ UNCHANGED notExf

\* A signal is delivered: a handler calls store(slot k, signal, info).
Store(k, signal, info) ==
    /\ nops < MaxOps
    /\ slot' = [slot EXCEPT ![k] = store(ex, slot[k], signal, info)]
    /\ hist' = [hist EXCEPT
          ![k] = [n |-> hist[k].n + 1, last |-> info, sig |-> signal,
                  loaded |-> hist[k].loaded, unreported |-> TRUE,
                  stores |-> hist[k].stores + 1, somes |-> hist[k].somes]]
    /\ nops' = nops + 1
    /\ UNCHANGED <<ex, cpc, carg, ret, obs>>
    /\ UNCHANGED notExf

\* Consumer c calls load(slot k, signal).
LoadCall(c, k, signal) ==
    /\ cpc[c] = "idle"
    /\ nops < MaxOps
    /\ cpc' = [cpc EXCEPT ![c] = "load"]
    /\ carg' = [carg EXCEPT ![c] = [slot |-> k, signal |-> signal]]
    /\ obs' = [obs EXCEPT ![c] = [NoObs EXCEPT !.owed = hist[k].unreported]]
    /\ nops' = nops + 1
    /\ UNCHANGED <<ex, slot, ret, hist>>
    /\ UNCHANGED notExf

\* The atomic compare-exchange or swap of c's load call, and the value computed
\* from what it read.
LoadAtomic(c) ==
    /\ cpc[c] = "load"
    /\ LET k == carg[c].slot
           r == load(ex, slot[k], carg[c].signal)
       IN  /\ slot' = [slot EXCEPT ![k] = r.slot]
           /\ ret' = [ret EXCEPT ![c] = r.ret]
           /\ hist' = [hist EXCEPT
                 ![k] = [n |-> 0, last |-> NoInfo, sig |-> NoHist.sig,
                         loaded |-> TRUE,
                         unreported |-> hist[k].unreported /\ ~r.ret.some,
                         stores |-> hist[k].stores,
                         somes |-> hist[k].somes + IF r.ret.some THEN 1 ELSE 0]]
           /\ obs' = [d \in Consumers |->
                 IF d = c
                 THEN [obs[c] EXCEPT !.n = hist[k].n, !.last = hist[k].last,
                                   !.sig = hist[k].sig,
                                   !.loaded = hist[k].loaded,
                                   !.accesses = obs[c].accesses + 1]
                 ELSE IF cpc[d] = "load" /\ carg[d].slot = k /\ r.ret.some
                 THEN [obs[d] EXCEPT !.someSince = TRUE]
                 ELSE obs[d]]
    /\ cpc' = [cpc EXCEPT ![c] = IF load_retries(ex, slot[carg[c].slot])
                                 THEN "load" ELSE "done"]
    /\ UNCHANGED <<ex, carg, nops>>
    /\ UNCHANGED notExf

\* c's load call returns; the caller takes the value.
LoadReturn(c) ==
    /\ cpc[c] = "done"
    /\ cpc' = [cpc EXCEPT ![c] = "idle"]
    /\ carg' = [carg EXCEPT ![c] = NoLoadArg]
    /\ ret' = [ret EXCEPT ![c] = None]
    /\ obs' = [obs EXCEPT ![c] = NoObs]
    /\ UNCHANGED <<ex, slot, hist, nops>>
    /\ UNCHANGED notExf

\* No signal is registered, delivered or loaded.
ExfIdle == ExfInit /\ ex = "WithOrigin"

(***************************************************************************)
(* The build script of signal-hook-consts: main of build.rs.  It compiles  *)
(* the probe src/constants.c with the host's C compiler and runs it with   *)
(* its standard output in OUT_DIR/constants.rs.                            *)
(***************************************************************************)
\* What the script finds when it runs:
\*   out_dir, host  OUT_DIR and HOST are set
\*   windows        cfg!(windows)
\*   cc_spawns      the compiler can be started;   cc_exit     its exit code
\*   stale          OUT_DIR holds the probe executable of an earlier run
\*   create         constants.rs can be created
\*   probe_spawns   an existing probe executable can be started
\*   probe_exit     the probe's exit code
BuildEnvs ==
    [out_dir : BOOLEAN, host : BOOLEAN, windows : BOOLEAN,
     cc_spawns : BOOLEAN, cc_exit : {0, 1}, stale : BOOLEAN,
     create : BOOLEAN, probe_spawns : BOOLEAN, probe_exit : {0, 1}]

IdleEnv ==
    [out_dir |-> TRUE, host |-> TRUE, windows |-> FALSE, cc_spawns |-> TRUE,
     cc_exit |-> 0, stale |-> FALSE, create |-> TRUE, probe_spawns |-> TRUE,
     probe_exit |-> 0]

BuildInit ==
    /\ benv \in BuildEnvs
    /\ bpc = "start"
    /\ out_file = ""
    /\ cmd = ""
    /\ bexe = IF benv.stale THEN "stale" ELSE "absent"
    /\ bgen = "absent"
    /\ bcc = "not run"
    /\ bprobe = "not run"

\* No build.
BuildIdle == BuildInit /\ benv = IdleEnv

\* Path::set_extension on the paths main handles.
set_extension(path, extension) ==
    IF path \in {"constants", "constants.exe", "constants.rs"}
    THEN "constants." \o extension
    ELSE path

\* env::var_os("OUT_DIR").expect(..), push("constants"), set_extension("exe").
BuildOutFile ==
    /\ bpc = "start"
    /\ IF benv.out_dir
       THEN /\ out_file' = IF benv.windows
                           THEN set_extension("constants", "exe")
                           ELSE "constants"
            /\ bpc' = "compile"
       ELSE /\ bpc' = "panicked"
            /\ UNCHANGED out_file
    /\ UNCHANGED <<benv, cmd, bexe, bgen, bcc, bprobe>>
    /\ UNCHANGED notBuild

\* Where main goes after .status().expect("Failed to compile the extraction
\* tool"): expect panics on Err (the compiler did not start) and on nothing else.
AfterCompile(status) ==
    IF status = "not started" THEN "panicked" ELSE "create"

\* env::var("HOST").expect(..), and the compiler run on IN_FILE -o out_file.
BuildCompile ==
    /\ bpc = "compile"
    /\ IF ~benv.host
       THEN /\ bpc' = "panicked"
            /\ UNCHANGED <<bcc, bexe>>
       ELSE LET status == IF ~benv.cc_spawns THEN "not started"
                          ELSE IF benv.cc_exit = 0 THEN "exit success"
                          ELSE "exit failure"
            IN  /\ bcc' = status
                /\ bexe' = IF status = "exit success" THEN "fresh" ELSE bexe
                /\ bpc' = AfterCompile(status)
    /\ UNCHANGED <<benv, out_file, cmd, bgen, bprobe>>
    /\ UNCHANGED notBuild

\* cmd = out_file.clone(), out_file.set_extension("rs"), File::create(..).expect(..).
BuildCreate ==
    /\ bpc = "create"
    /\ cmd' = out_file
    /\ out_file' = set_extension(out_file, "rs")
    /\ IF benv.create
       THEN bgen' = "empty" /\ bpc' = "run"
       ELSE bpc' = "panicked" /\ UNCHANGED bgen
    /\ UNCHANGED <<benv, bexe, bcc, bprobe>>
    /\ UNCHANGED notBuild

\* Where main goes after .status().expect("Failed to run the generated tool").
AfterProbe(status) ==
    IF status = "not started" THEN "panicked" ELSE "finished"

\* Command::new(&cmd).stdout(out).status().expect(..): the probe writes the
\* constants to the file; one that fails leaves what it had written.
BuildRun ==
    /\ bpc = "run"
    /\ LET status == IF bexe = "absent" \/ ~benv.probe_spawns THEN "not started"
                     ELSE IF benv.probe_exit = 0 THEN "exit success"
                     ELSE "exit failure"
       IN  /\ bprobe' = status
           /\ bgen' = IF status = "exit success" THEN "constants"
                      ELSE IF status = "exit failure" THEN "partial"
                      ELSE bgen
           /\ bpc' = AfterProbe(status)
    /\ UNCHANGED <<benv, out_file, cmd, bexe, bcc>>
    /\ UNCHANGED notBuild

(***************************************************************************)
(* signal-hook-sys: Origin::extract.  The native helper                    *)
(* sighook_signal_origin is foreign code: it returns any u8 and may write  *)
(* the two output parameters.                                              *)
(***************************************************************************)
ORIGIN_UNKNOWN == 0
ORIGIN_PROCESS == 1
ORIGIN_KERNEL == 2

\* The Origin and Cause of signal-hook-sys.
sys_Unknown == [tag |-> "Unknown"]
sys_Kernel == [tag |-> "Kernel"]
sys_Process(pid, uid, cause) ==
    [tag |-> "Process", pid |-> pid, uid |-> uid, cause |-> cause]
Causes == {"User", "Queue", "MesgQ", "Exited", "Killed", "Dumped", "Trapped",
           "Stopped", "Continued"}

\* The outcome of a call that aborts the process.
Abort == [tag |-> "abort"]

\* What the helper does in a call: the u8 it returns, and whether it writes
\* pid and uid through the output parameters.
U8 == 0..(2^8 - 1)
Helpers == [ret : U8, writes : BOOLEAN, pid : {-1, 4242}, uid : {<<0, 7>>}]
IdleHelper == [ret |-> 0, writes |-> FALSE, pid |-> 4242, uid |-> <<0, 7>>]

NoLocals == [pid |-> 0, uid |-> <<0, 0>>, origin |-> 0]
NoOrigin == [tag |-> "none"]

\* A slip: the arms of ORIGIN_PROCESS and ORIGIN_KERNEL exchanged.
extract_match_arms_exchanged(origin, pid, uid) ==
    IF origin = ORIGIN_UNKNOWN THEN sys_Unknown
    ELSE IF origin = ORIGIN_PROCESS THEN sys_Kernel
    ELSE IF origin = ORIGIN_KERNEL THEN sys_Process(pid, uid, "User")
    ELSE Abort

\* A slip: the last arm returns Unknown.
extract_match_no_abort(origin, pid, uid) ==
    IF origin = ORIGIN_UNKNOWN THEN sys_Unknown
    ELSE IF origin = ORIGIN_KERNEL THEN sys_Kernel
    ELSE IF origin = ORIGIN_PROCESS THEN sys_Process(pid, uid, "User")
    ELSE sys_Unknown

\* The match of Origin::extract.
extract_match(origin, pid, uid) ==
    IF origin = ORIGIN_UNKNOWN THEN sys_Unknown
    ELSE IF origin = ORIGIN_KERNEL THEN sys_Kernel
    ELSE IF origin = ORIGIN_PROCESS THEN sys_Process(pid, uid, "User")
    ELSE Abort

ExtractInit ==
    /\ epc = "entry"
    /\ ehelper \in Helpers
    /\ elocal = NoLocals
    /\ eresult = NoOrigin

\* No call of Origin::extract.
ExtractIdle == ExtractInit /\ ehelper = IdleHelper

\* let mut pid = 0; let mut uid = 0.
ExtractLocals ==
    /\ epc = "entry"
    /\ elocal' = [elocal EXCEPT !.pid = 0, !.uid = <<0, 0>>]
    /\ epc' = "helper"
    /\ UNCHANGED <<ehelper, eresult>>
    /\ UNCHANGED notExtract

\* let origin = sighook_signal_origin(info, &mut pid, &mut uid).
ExtractHelper ==
    /\ epc = "helper"
    /\ elocal' = [pid |-> IF ehelper.writes THEN ehelper.pid ELSE elocal.pid,
                  uid |-> IF ehelper.writes THEN ehelper.uid ELSE elocal.uid,
                  origin |-> ehelper.ret]
    /\ epc' = "match"
    /\ UNCHANGED <<ehelper, eresult>>
    /\ UNCHANGED notExtract

\* match origin { .. }: the Origin is returned, or the process aborted.
ExtractMatch ==
    /\ epc = "match"
    /\ LET r == extract_match(elocal.origin, elocal.pid, elocal.uid)
       IN  IF r = Abort
           THEN epc' = "aborted" /\ UNCHANGED eresult
           ELSE epc' = "returned" /\ eresult' = r
    /\ UNCHANGED <<ehelper, elocal>>
    /\ UNCHANGED notExtract

(***************************************************************************)
(* The specifications.                                                     *)
(***************************************************************************)
\* The exfiltrators under handlers and consumers.  The iteration layer loads the
\* slot of a signal with that signal's number; a handler is handed whatever
\* number and siginfo the delivery carries.
Init == ExfInit /\ CodecIdle /\ BuildIdle /\ ExtractIdle
Next ==
    \/ \E k \in Signals, info \in Infos : Store(k, k, info)
    \/ \E c \in Consumers, k \in Signals : LoadCall(c, k, k)
    \/ \E c \in Consumers : LoadAtomic(c)
    \/ \E c \in Consumers : LoadReturn(c)
Spec == Init /\ [][Next]_vars

\* compose and its unpacking on sampled pids and uids.
SpecCodecInit == CodecInit /\ ExfIdle /\ BuildIdle /\ ExtractIdle
SpecCodecNext == CodecCompose \/ CodecDecompose
SpecCodec == SpecCodecInit /\ [][SpecCodecNext]_vars

\* The build script in every environment.
SpecBuildInit == BuildInit /\ ExfIdle /\ CodecIdle /\ ExtractIdle
SpecBuildNext == BuildOutFile \/ BuildCompile \/ BuildCreate \/ BuildRun
SpecBuild == SpecBuildInit /\ [][SpecBuildNext]_vars

\* The exfiltrators called with any signal argument, whatever the slot.
SignalInfos == {siginfo(SI_USER, 4242, <<0, 7>>), siginfo(SI_KERNEL, 4242, <<0, 7>>)}
SpecSignalNext ==
    \/ \E k \in Signals, signal \in Signals, info \in SignalInfos :
          Store(k, signal, info)
    \/ \E c \in Consumers, k \in Signals, signal \in Signals :
          LoadCall(c, k, signal)
    \/ \E c \in Consumers : LoadAtomic(c)
    \/ \E c \in Consumers : LoadReturn(c)
SpecSignal == Init /\ [][SpecSignalNext]_vars

\* Origin::extract with every helper.
SpecExtractInit == ExtractInit /\ ExfIdle /\ CodecIdle /\ BuildIdle
SpecExtractNext == ExtractLocals \/ ExtractHelper \/ ExtractMatch
SpecExtract == SpecExtractInit /\ [][SpecExtractNext]_vars

(***************************************************************************)
(* Properties of the exfiltrators, checked under Spec.                     *)
(***************************************************************************)
\* c's load call has made its atomic step and not yet returned.
Loaded(c) == cpc[c] = "done"

\* The signal metadata of a store names a sending process.
FromProcess(info) == info.si_code = SI_QUEUE \/ info.si_code = SI_USER

\* What a delivery with metadata info stands for.
Payload(info) ==
    IF FromProcess(info) THEN Process(info.si_pid, info.si_uid) ELSE Unknown

\* C1: SignalOnly coalescing.  A load whose atomic step follows N >= 1 stores on
\* its slot (no load between them) returns Some(signal), however large N is, and
\* a load whose atomic step follows another load's with no store between them
\* returns None.
C1_Coalescing ==
    \A c \in Consumers :
        (ex = "SignalOnly" /\ Loaded(c)) =>
            /\ obs[c].n >= 1 => ret[c] = Some(carg[c].signal)
            /\ (obs[c].n = 0 /\ obs[c].loaded) => ret[c] = None

\* Two stores were coalesced into the Some of one load, and the load that
\* followed it on the same slot returned None.
C1_Witness ==
    /\ ex = "SignalOnly"
    /\ \E c, d \in Consumers :
          /\ c # d /\ Loaded(c) /\ Loaded(d) /\ carg[c].slot = carg[d].slot
          /\ obs[c].n >= 2 /\ ret[c] = Some(carg[c].signal)
          /\ obs[d].n = 0 /\ obs[d].loaded /\ ret[d] = None

\* C2: WithOrigin process round trip.  A load whose atomic step follows exactly
\* one store, of code SI_QUEUE or SI_USER with sender (P, U), returns
\* Some(Origin{signal, Process{P, U}}), and a load that follows another load with
\* no store between them returns None.  (Violated: the senders (-1, 1) and
\* (-1, 2) are packed to EMPTY and UNKNOWN.)
C2_ProcessRoundTrip ==
    \A c \in Consumers :
        (ex = "WithOrigin" /\ Loaded(c)) =>
            /\ (obs[c].n = 1 /\ FromProcess(obs[c].last)) =>
                  ret[c] = Some(Origin(carg[c].signal,
                                       Process(obs[c].last.si_pid,
                                               obs[c].last.si_uid)))
            /\ (obs[c].n = 0 /\ obs[c].loaded) => ret[c] = None

\* C3: the word a store of code SI_QUEUE or SI_USER leaves in the slot is neither
\* EMPTY nor UNKNOWN.  (Violated: compose(-1, 1) is EMPTY, compose(-1, 2) is
\* UNKNOWN.)
C3_SentinelsNeverCollide ==
    \A k \in Signals :
        (ex = "WithOrigin" /\ hist[k].n >= 1 /\ FromProcess(hist[k].last)) =>
            slot[k] # EMPTY /\ slot[k] # UNKNOWN

\* C4: last write wins.  A load whose atomic step follows N >= 1 stores on its
\* slot returns the payload of the last of them.  (Violated where the last store
\* is one of C3's.)
C4_LastWriteWins ==
    \A c \in Consumers :
        (ex = "WithOrigin" /\ Loaded(c) /\ obs[c].n >= 1) =>
            ret[c] = Some(Origin(carg[c].signal, Payload(obs[c].last)))

\* C5: no delivery is lost (SignalOnly).  If a store had written before a load
\* was called and no load had returned Some since that write, then the load
\* returns Some(signal), or the atomic step of another load on the slot, after
\* the call, returned Some.
C5_NoLostDelivery ==
    \A c \in Consumers :
        (ex = "SignalOnly" /\ Loaded(c) /\ obs[c].owed) =>
            ret[c] = Some(carg[c].signal) \/ obs[c].someSince

\* Two loads raced for one delivery: one returned None, the other had taken it.
C5_Witness ==
    /\ ex = "SignalOnly"
    /\ \E c, d \in Consumers :
          /\ c # d /\ Loaded(c) /\ Loaded(d) /\ carg[c].slot = carg[d].slot
          /\ obs[c].owed /\ ret[c] = None /\ obs[c].someSince
          /\ obs[d].owed /\ ret[d] = Some(carg[d].signal)

\* C6: load of a slot that holds its Default value.  For both exfiltrators, the
\* atomic step of a load that finds the slot holding Default (flag false, word
\* EMPTY) returns None and leaves the slot holding Default.
C6_LoadOfDefault ==
    [][\A c \in Consumers :
          (cpc[c] = "load" /\ cpc'[c] = "done"
              /\ slot[carg[c].slot] = Default(ex)) =>
              /\ ret'[c] = None
              /\ slot'[carg[c].slot] = Default(ex)]_vars

\* The first load of a slot no store has touched has returned None and the slot
\* holds EMPTY.
C6_Witness ==
    /\ ex = "WithOrigin"
    /\ \E c \in Consumers :
          /\ Loaded(c) /\ obs[c].n = 0 /\ ~obs[c].loaded /\ ret[c] = None
          /\ hist[carg[c].slot].n = 0 /\ hist[carg[c].slot].loaded
          /\ slot[carg[c].slot] = EMPTY

\* C7: idempotence of load.  For both exfiltrators, a load whose atomic step
\* follows another load's on the same slot with no store between them returns
\* None.
C7_LoadIdempotent ==
    \A c \in Consumers :
        (Loaded(c) /\ obs[c].n = 0 /\ obs[c].loaded) => ret[c] = None

\* One load returned Some(Origin), and the load that followed it with no store
\* between them returned None.
C7_Witness ==
    /\ ex = "WithOrigin"
    /\ \E c, d \in Consumers :
          /\ c # d /\ Loaded(c) /\ Loaded(d) /\ carg[c].slot = carg[d].slot
          /\ obs[c].n >= 1 /\ ret[c].some
          /\ obs[d].n = 0 /\ obs[d].loaded /\ ret[d] = None

\* C8: unknown origin.  A load whose atomic step follows a store whose code is
\* neither SI_QUEUE nor SI_USER returns Some(Origin{signal, Unknown}), whatever
\* pid and uid the metadata holds.
C8_UnknownOrigin ==
    \A c \in Consumers :
        (ex = "WithOrigin" /\ Loaded(c) /\ obs[c].n >= 1
            /\ ~FromProcess(obs[c].last)) =>
            ret[c] = Some(Origin(carg[c].signal, Unknown))

\* A store of code SI_KERNEL whose metadata holds pid 4242, uid 7 was loaded as
\* Unknown.
C8_Witness ==
    \E c \in Consumers :
        /\ ex = "WithOrigin" /\ Loaded(c) /\ obs[c].n >= 1
        /\ obs[c].last = siginfo(SI_KERNEL, 4242, <<0, 7>>)
        /\ ret[c] = Some(Origin(carg[c].signal, Unknown))

(***************************************************************************)
(* Properties of compose, checked under SpecCodec.                         *)
(***************************************************************************)
ReservedPairs == {<<-1, <<0, 1>>>>, <<-1, <<0, 2>>>>}

\* C9: encode/decode round trip.  For every pid and uid other than the reserved
\* pairs (-1, 1) and (-1, 2), the unpacking of WithOrigin::load applied to
\* compose(pid, uid) yields pid and uid.
C9_ComposeRoundTrip ==
    (xpc = "decoded" /\ <<xpid, xuid>> \notin ReservedPairs) =>
        xout = <<xpid, xuid>>

\* The smallest pid with the largest uid went through compose and back.
C9_Witness ==
    /\ xpc = "decoded"
    /\ xpid = PidMin /\ xuid = <<Limb - 1, Limb - 1>>
    /\ xword = <<Limb \div 2, 0, Limb - 1, Limb - 1>>
    /\ xout = <<xpid, xuid>>

\* pid mod 2^32 as two limbs, most significant first: the pid itself when it is
\* not negative, and 2^32 - 1 - (-(pid + 1)) when it is.
PidMod32(pid) ==
    IF pid >= 0 THEN <<pid \div Limb, pid % Limb>>
    ELSE <<Limb - 1 - ((-(pid + 1)) \div Limb),
           Limb - 1 - ((-(pid + 1)) % Limb)>>

\* C16: the packing layout.  compose(pid, uid) is (pid mod 2^32) * 2^32 + uid:
\* the two limbs of pid's two's-complement pattern above the two limbs of the
\* uid, none of them mixed; EMPTY is 0xFFFFFFFF00000001, UNKNOWN is
\* 0xFFFFFFFF00000002, and a negative pid decodes back as itself.
C16_PackingLayout ==
    /\ xpc \in {"composed", "decoded"} =>
          xword = <<PidMod32(xpid)[1], PidMod32(xpid)[2], xuid[1], xuid[2]>>
    /\ EMPTY = <<Limb - 1, Limb - 1, 0, 1>>
    /\ UNKNOWN = <<Limb - 1, Limb - 1, 0, 2>>
    /\ (xpc = "decoded" /\ xpid < 0) => xout[1] = xpid

\* The pid -65536 (0xFFFF0000) with the uid 0x80000000 was packed as
\* 0xFFFF000080000000 and the pid decoded back as -65536.
C16_Witness ==
    /\ xpc = "decoded"
    /\ xpid = -Limb /\ xuid = <<Limb \div 2, 0>>
    /\ xword = <<Limb - 1, 0, Limb \div 2, 0>>
    /\ xout[1] = -Limb

(***************************************************************************)
(* Properties of the build script, checked under SpecBuild.                *)
(***************************************************************************)
\* C10: a probe failure is fatal.  main finishes only when the compiler ran and
\* exited successfully and the probe ran and exited successfully.  (Violated:
\* the exit status of neither is looked at.)
C10_ProbeFailureIsFatal ==
    bpc = "finished" => bcc = "exit success" /\ bprobe = "exit success"

(***************************************************************************)
(* Further properties of the exfiltrators, checked under Spec.             *)
(***************************************************************************)
\* C13: at-most-once reporting under concurrent loads.  For both exfiltrators
\* and on every slot, the loads that have returned Some never outnumber the
\* stores performed, every load that returned Some found a store of its own
\* (one after the atomic step of the load before it), and two loads that raced
\* on one store have not both returned Some.
C13_AtMostOnce ==
    /\ \A k \in Signals : hist[k].somes <= hist[k].stores
    /\ \A c \in Consumers : (Loaded(c) /\ ret[c].some) => obs[c].n >= 1
    /\ \A c, d \in Consumers :
          (c # d /\ Loaded(c) /\ Loaded(d) /\ carg[c].slot = carg[d].slot
             /\ hist[carg[c].slot].stores = 1) =>
                ~(ret[c].some /\ ret[d].some)

\* Two loads raced on the one store of a slot: both were called, one took the
\* delivery and the other returned None.
C13_Witness ==
    \E c, d \in Consumers :
        /\ c # d /\ Loaded(c) /\ Loaded(d) /\ carg[c].slot = carg[d].slot
        /\ hist[carg[c].slot].stores = 1 /\ hist[carg[c].slot].somes = 1
        /\ ret[c].some /\ ret[d] = None /\ obs[d].someSince

\* C14: no torn or fabricated payload.  Every Process{pid, uid} a WithOrigin
\* load returns is the (si_pid, si_uid) of one store of code SI_QUEUE or
\* SI_USER on the slot, the last one before the load's atomic step: both halves
\* come from that one store.
C14_NoTornPayload ==
    \A c \in Consumers :
        (ex = "WithOrigin" /\ Loaded(c) /\ ret[c].some
           /\ ret[c].val.origin_type.tag = "Process") =>
            /\ obs[c].n >= 1
            /\ FromProcess(obs[c].last)
            /\ ret[c].val.origin_type.pid = obs[c].last.si_pid
            /\ ret[c].val.origin_type.uid = obs[c].last.si_uid

\* Two stores of different senders wrote a slot one after the other, and the
\* load returned the pid and the uid of the second.
C14_Witness ==
    \E c \in Consumers :
        /\ ex = "WithOrigin" /\ Loaded(c) /\ obs[c].n = 2
        /\ obs[c].last = siginfo(SI_QUEUE, 1000, <<0, 0>>)
        /\ ret[c] = Some(Origin(carg[c].signal, Process(1000, <<0, 0>>)))
        /\ \E d \in Consumers :
              /\ d # c /\ Loaded(d) /\ carg[d].slot = carg[c].slot
              /\ ret[d] = None

\* The state of a WithOrigin slot holding the word w.
SlotState(w) ==
    IF w = EMPTY THEN "empty"
    ELSE IF w = UNKNOWN THEN "unknown-pending"
    ELSE "process-pending"

\* The step is the atomic step of a load on slot k; the step is a store on
\* slot k.
LoadStepOn(k) ==
    \E c \in Consumers :
        cpc[c] = "load" /\ cpc'[c] = "done" /\ carg[c].slot = k
StoreStepOn(k) == hist'[k].stores = hist[k].stores + 1

\* C15: the slot state machine.  A WithOrigin slot is empty right after every
\* load's atomic step, only a load's atomic step moves a slot to empty, and only
\* a store moves a slot out of empty.  (Violated: a store of code SI_QUEUE with
\* sender (-1, 1) on a pending slot moves it to empty.)
C15_SlotStateMachine ==
    [][ex = "WithOrigin" =>
          \A k \in Signals :
              /\ LoadStepOn(k) => SlotState(slot'[k]) = "empty"
              /\ (SlotState(slot[k]) # "empty" /\ SlotState(slot'[k]) = "empty")
                    => LoadStepOn(k)
              /\ (SlotState(slot[k]) = "empty" /\ SlotState(slot'[k]) # "empty")
                    => StoreStepOn(k)]_vars

\* C18: wait-freedom.  For both exfiltrators and in every state, whatever the
\* slot holds and whatever the other calls are doing: a load that has not made
\* its atomic access can make it and is then done, a load that is done has
\* made exactly one access and can return, and a store (one atomic access, the
\* whole of the call) can be made on every slot.
C18_WaitFree ==
    /\ \A c \in Consumers :
          /\ cpc[c] = "load" =>
                /\ obs[c].accesses = 0
                /\ ENABLED (LoadAtomic(c) /\ cpc'[c] = "done")
          /\ cpc[c] = "done" =>
                /\ obs[c].accesses = 1
                /\ ENABLED LoadReturn(c)
    /\ nops < MaxOps =>
          \A k \in Signals, info \in Infos :
              ENABLED (Store(k, k, info) /\ hist'[k].stores = hist[k].stores + 1)

\* Two loads were in flight on one slot; one made its single access and found
\* the slot empty, a store then filled the slot, and the other load has its
\* access still to make.
C18_Witness ==
    \E c, d \in Consumers :
        /\ c # d /\ carg[c].slot = carg[d].slot
        /\ cpc[c] = "done" /\ obs[c].accesses = 1 /\ ret[c] = None
        /\ cpc[d] = "load" /\ obs[d].accesses = 0
        /\ hist[carg[c].slot].n = 1

\* C19: slot independence.  A store on the slot of one signal, and the atomic
\* step of a load on it, leave the slot of every other signal as it was, and
\* with it what that slot has pending.
C19_SlotIndependence ==
    [][\A k \in Signals :
          (StoreStepOn(k) \/ LoadStepOn(k)) =>
              \A j \in Signals \ {k} :
                  slot'[j] = slot[j] /\ hist'[j] = hist[j]]_vars

\* The slot of signal 10 holds the delivery of one store, while on the slot of
\* signal 12 a store was made and a load took it, leaving that slot empty.
C19_Witness ==
    /\ ex = "WithOrigin"
    /\ hist[10].n = 1 /\ hist[10].last = siginfo(SI_USER, 4242, <<0, 7>>)
    /\ slot[10] = compose(4242, <<0, 7>>)
    /\ hist[12].stores = 1 /\ hist[12].somes = 1 /\ slot[12] = EMPTY
    /\ \E c \in Consumers :
          /\ Loaded(c) /\ carg[c].slot = 12
          /\ ret[c] = Some(Origin(12, Process(1000, <<0, 0>>)))

(***************************************************************************)
(* Properties of the signal argument, checked under SpecSignal.            *)
(***************************************************************************)
\* C17: the signal reported is load's own argument.  For both exfiltrators,
\* the signal in the Some of a load (SignalOnly's Some(signal), WithOrigin's
\* Origin.signal) is the signal passed to that load call, whatever signal the
\* store that filled the slot was called with, and that store's signal changes
\* nothing in the slot.
C17_SignalIsLoadArgument ==
    /\ \A c \in Consumers :
          (Loaded(c) /\ ret[c].some) =>
              IF ex = "SignalOnly" THEN ret[c].val = carg[c].signal
              ELSE ret[c].val.signal = carg[c].signal
    /\ \A k \in Signals, signal \in Signals :
          hist[k].n >= 1 => slot[k] = store(ex, slot[k], signal, hist[k].last)

\* A store called with signal 12 filled the slot, and the load called with
\* signal 10 returned Some with signal 10.
C17_Witness ==
    \E c \in Consumers :
        /\ Loaded(c) /\ ret[c].some /\ obs[c].n = 1
        /\ obs[c].sig = 12 /\ carg[c].signal = 10
        /\ ret[c] = IF ex = "SignalOnly" THEN Some(10)
                    ELSE Some(Origin(10, Process(4242, <<0, 7>>)))

(***************************************************************************)
(* Properties of Origin::extract, checked under SpecExtract.               *)
(***************************************************************************)
\* The pid and uid in the locals after the helper's call: what it wrote, or the
\* zeros they were initialised with.
HelperPid == IF ehelper.writes THEN ehelper.pid ELSE 0
HelperUid == IF ehelper.writes THEN ehelper.uid ELSE <<0, 0>>

\* C11: the discriminant mapping.  When the helper returns 0 extract returns
\* Unknown, when it returns 2 Kernel, and when it returns 1 Process with the pid
\* and uid of the output parameters and cause User; no other cause is produced.
C11_DiscriminantMapping ==
    /\ (epc \in {"returned", "aborted"} /\ ehelper.ret = 0) =>
          epc = "returned" /\ eresult = sys_Unknown
    /\ (epc \in {"returned", "aborted"} /\ ehelper.ret = 2) =>
          epc = "returned" /\ eresult = sys_Kernel
    /\ (epc \in {"returned", "aborted"} /\ ehelper.ret = 1) =>
          epc = "returned" /\ eresult = sys_Process(HelperPid, HelperUid, "User")
    /\ eresult.tag = "Process" => eresult.cause = "User"

\* The helper returned 1 and wrote pid -1, uid 7: extract returned them as a
\* Process of cause User.
C11_Witness ==
    /\ epc = "returned" /\ ehelper.ret = 1 /\ ehelper.writes /\ ehelper.pid = -1
    /\ eresult = sys_Process(-1, <<0, 7>>, "User")

\* C12: an unrecognized discriminant aborts.  extract aborts exactly when the
\* helper returned a value in 3..255, and then returns no Origin.
C12_UnrecognizedAborts ==
    /\ epc \in {"returned", "aborted"} =>
          (epc = "aborted" <=> ehelper.ret \in 3..255)
    /\ epc = "aborted" => eresult = NoOrigin
    /\ epc = "returned" => eresult.tag \in {"Unknown", "Kernel", "Process"}

\* The helper returned 255 and extract aborted.
C12_Witness ==
    epc = "aborted" /\ ehelper.ret = 255 /\ eresult = NoOrigin

====
